---- MODULE Spec2Model ----
(***************************************************************************)
(* Landmark classification of the two live_video demos:                    *)
(*   hand-pose-detection/demos/live_video/src/index.js  (detectGesture)    *)
(*   face-landmarks-detection/demos/live_video/src/index.js                *)
(*                                                     (detectGazeDirection)*)
(*                                                                         *)
(* Numbers.  Landmark coordinates are integers (a pixel grid).  The code   *)
(* works in IEEE doubles.  The gaze ratios are computed here as doubles,   *)
(* operation by operation with the rounding of each.  The comparisons of   *)
(* the hand demo are decided by an integer inequality where that has the   *)
(* same truth value as the comparison of the doubles:                      *)
(*   sqrt(a) < t          as   a < t*t            (t > 0)                   *)
(*   m / (l1*l2) < n/d    as   m^2 * d^2 < n^2 * l1^2 * l2^2   (n > 0),     *)
(*                        the two sides being different; when they are     *)
(*                        equal the doubles are computed and compared      *)
(*   acos(c)*180/pi < 20  as   c^2 > 0.8831 > cos^2(20 deg), and its       *)
(*                        negation as c^2 < 0.883; between the two, and    *)
(*                        for every other tolerance, Math.acos is computed *)
(*                        in doubles as the JavaScript engine does (fdlibm)*)
(* A tolerance is a pair <<num, den>> (0.15 is <<3, 20>>).  A landmark     *)
(* array is a sequence: the code's landmarks[i] is At(landmarks, i).  A    *)
(* missing array or hand (null / undefined) is the empty sequence.         *)
(***************************************************************************)
EXTENDS Integers, Sequences, FiniteSets, TLC

VARIABLES app, pc, hands, gesture, faces, gazes, console, fn, args, ret

\* The render loop of the hand demo: where renderPrediction stands, the
\* module variable `detector`, the detectors made so far and the dispose()
\* calls each has received, the change markers of STATE that checkGuiUpdate
\* reads, and the error caught by the step just taken.
VARIABLES rp, detector, created, disposals,
          isTargetFPSChanged, isSizeOptionChanged,
          isModelChanged, isFlagChanged, isBackendChanged, error

loopVars == <<rp, detector, created, disposals,
              isTargetFPSChanged, isSizeOptionChanged,
              isModelChanged, isFlagChanged, isBackendChanged, error>>

vars == <<app, pc, hands, gesture, faces, gazes, console, fn, args, ret,
          loopVars>>

\* ---------------------------------------------------------------- bounds
MaxHands == 2
MaxFaces == 1
GridMax == 2
MaxDetectors == 3

\* ------------------------------------------------------------- constants
NoLabel == "null"
Absent == <<>>

Sq(a) == a * a
Abs(a) == IF a < 0 THEN -a ELSE a
At(landmarks, i) == landmarks[i + 1]

\* ------------------------------------------------------ natural numbers
\* A natural number of any size, as the sequence of its digits in base
\* 2^15, lowest first, without leading zeros; <<>> is 0.
Base == 2^15
Sign(a) == IF a > 0 THEN 1 ELSE IF a < 0 THEN -1 ELSE 0
Max(a, b) == IF a > b THEN a ELSE b
Min(a, b) == IF a < b THEN a ELSE b
Limb(a, i) == IF i <= Len(a) THEN a[i] ELSE 0

RECURSIVE BNorm(_)
BNorm(a) ==
    IF a = <<>> THEN a
    ELSE IF a[Len(a)] = 0 THEN BNorm(SubSeq(a, 1, Len(a) - 1)) ELSE a

RECURSIVE BFromInt(_)
BFromInt(n) == IF n = 0 THEN <<>> ELSE <<n % Base>> \o BFromInt(n \div Base)

\* Base * a + x for a digit x
BCons(x, a) == IF x = 0 /\ a = <<>> THEN a ELSE <<x>> \o a

RECURSIVE BCmpFrom(_, _, _)
BCmpFrom(a, b, i) ==
    IF i = 0 THEN 0
    ELSE IF a[i] # b[i] THEN Sign(a[i] - b[i])
    ELSE BCmpFrom(a, b, i - 1)

\* -1, 0, 1 as a < b, a = b, a > b.
BCmp(a, b) ==
    IF Len(a) # Len(b) THEN Sign(Len(a) - Len(b)) ELSE BCmpFrom(a, b, Len(a))

RECURSIVE BAddFrom(_, _, _, _)
BAddFrom(a, b, i, carry) ==
    IF i > Len(a) /\ i > Len(b) THEN (IF carry = 0 THEN <<>> ELSE <<carry>>)
    ELSE <<(Limb(a, i) + Limb(b, i) + carry) % Base>>
            \o BAddFrom(a, b, i + 1, (Limb(a, i) + Limb(b, i) + carry) \div Base)

BAdd(a, b) == BAddFrom(a, b, 1, 0)

RECURSIVE BSubFrom(_, _, _, _)
BSubFrom(a, b, i, borrow) ==
    IF i > Len(a) THEN <<>>
    ELSE <<(a[i] - Limb(b, i) - borrow) % Base>>
            \o BSubFrom(a, b, i + 1, IF a[i] - Limb(b, i) - borrow < 0 THEN 1 ELSE 0)

\* a - b for a >= b
BSub(a, b) == BNorm(BSubFrom(a, b, 1, 0))

RECURSIVE BMulSmallFrom(_, _, _, _)
BMulSmallFrom(a, k, i, carry) ==
    IF i > Len(a) THEN (IF carry = 0 THEN <<>> ELSE <<carry>>)
    ELSE <<(a[i] * k + carry) % Base>>
            \o BMulSmallFrom(a, k, i + 1, (a[i] * k + carry) \div Base)

\* a * k for 0 <= k < Base
BMulSmall(a, k) == IF k = 0 THEN <<>> ELSE BMulSmallFrom(a, k, 1, 0)

RECURSIVE BMulFrom(_, _, _)
BMulFrom(a, b, i) ==
    IF i > Len(b) THEN <<>>
    ELSE BAdd(BMulSmall(a, b[i]), BCons(0, BMulFrom(a, b, i + 1)))

BMul(a, b) == BMulFrom(a, b, 1)

\* a * 2^k
BShl(a, k) ==
    IF a = <<>> THEN a
    ELSE [i \in 1..(k \div 15) |-> 0] \o BMulSmall(a, 2^(k % 15))

\* The number of binary digits of a digit x, and of a.
BitLenSmall(x) == IF x = 0 THEN 0 ELSE CHOOSE k \in 1..15 : 2^(k - 1) <= x /\ x < 2^k
BBitLen(a) == IF a = <<>> THEN 0 ELSE 15 * (Len(a) - 1) + BitLenSmall(a[Len(a)])

\* The quotient of the two highest digits of r by the highest digit of d,
\* where r has at most one digit more than d.
BEstimate(r, d) ==
    Min(Base - 1, (Limb(r, Len(d) + 1) * Base + Limb(r, Len(d))) \div d[Len(d)])

\* The largest digit t with d * t <= r, for r < Base * d and the highest
\* digit of d at least Base / 2: the estimate is t, t + 1 or t + 2 (Knuth,
\* The Art of Computer Programming, 4.3.1, Theorem B).
BDigit(r, d, estimate) ==
    IF BCmp(BMulSmall(d, estimate), r) <= 0 THEN estimate
    ELSE IF BCmp(BMulSmall(d, estimate - 1), r) <= 0 THEN estimate - 1
    ELSE estimate - 2

\* Long division: the digits of n from the i-th down are brought into the
\* remainder r one by one; q collects the digits of the quotient.
RECURSIVE BDivFrom(_, _, _, _, _)
BDivNext(n, d, i, q, r, t) ==
    BDivFrom(n, d, i - 1, <<t>> \o q, BSub(r, BMulSmall(d, t)))
BDivStep(n, d, i, q, r) ==
    IF Len(r) < Len(d) THEN BDivFrom(n, d, i - 1, <<0>> \o q, r)
    ELSE BDivNext(n, d, i, q, r, BDigit(r, d, BEstimate(r, d)))
BDivFrom(n, d, i, q, r) ==
    IF i = 0 THEN [q |-> BNorm(q), exact |-> r = <<>>]
    ELSE BDivStep(n, d, i, q, BCons(n[i], r))

BDivAll(n, d) == BDivFrom(n, d, Len(n), <<>>, <<>>)

\* q is floor(n / d), and `exact` says that n is a multiple of d, for
\* d > 0.  n and d are first moved up by the binary digits that make the
\* highest digit of d at least Base / 2.
BDiv(n, d) ==
    BDivAll(BShl(n, 15 - BitLenSmall(d[Len(d)])), BShl(d, 15 - BitLenSmall(d[Len(d)])))

\* Newton's iteration for the square root, from x above the root down: y
\* is floor((x + n / x) / 2).
RECURSIVE BSqrtFrom(_, _)
BSqrtStep(n, x, y) == IF BCmp(y, x) >= 0 THEN x ELSE BSqrtFrom(n, y)
BSqrtFrom(n, x) == BSqrtStep(n, x, BDiv(BAdd(BMul(x, x), n), BAdd(x, x)).q)

\* floor(sqrt(n)) for n > 0
BSqrt(n) == BSqrtFrom(n, BShl(<<1>>, (BBitLen(n) + 1) \div 2))

\* ------------------------------------------------------------- doubles
\* A JavaScript number: k = "num" is s * m * 2^e (s the sign, 0 for zero;
\* m a natural number of at most 53 binary digits, or 2^53), k = "inf" is
\* s * Infinity, k = "nan" is NaN.  Every operation gives the double nearest
\* to the exact result, ties to the even one, as IEEE 754 has it.
\* Exponents stay far from the ends of the range for the coordinates used
\* here, so nothing overflows or becomes subnormal.  +0 and -0 are one
\* value: the only divisors that can be zero are differences of two
\* coordinates, which are +0, and no comparison tells the two zeros apart.
Zero == [k |-> "num", s |-> 0, m |-> <<>>, e |-> 0]
Inf(s) == [k |-> "inf", s |-> s, m |-> <<>>, e |-> 0]
NaN == [k |-> "nan", s |-> 0, m |-> <<>>, e |-> 0]
IsNaN(a) == a.k = "nan"
IsFinite(a) == a.k = "num"

\* s * (q + f) * 2^e rounded to 53 binary digits, for q of 54 binary digits
\* or more whose digits to drop are its w lowest digits in base 2^15; f is
\* a fraction strictly between 0 and 1 when `inexact` and 0 otherwise.
RoundAt(s, q, w, inexact, e) ==
    LET up == /\ q[w] >= 2^14
              /\ \/ inexact
                 \/ q[w] % 2^14 # 0
                 \/ \E i \in 1..(w - 1) : q[i] # 0
                 \/ q[w + 1] % 2 = 1
    IN  [k |-> "num", s |-> s, e |-> e + 15 * w,
         m |-> IF up THEN BAdd(SubSeq(q, w + 1, Len(q)), <<1>>)
               ELSE SubSeq(q, w + 1, Len(q))]

\* s * (q + f) * 2^e rounded to 53 binary digits.  With `inexact`, q has
\* 55 binary digits or more.  q is first moved up by the t binary digits
\* that make the digits to drop whole digits in base 2^15.
RoundUp(s, q, t, inexact, e) ==
    RoundAt(s, BShl(q, t), (BBitLen(q) - 53 + t) \div 15, inexact, e - t)

Round(s, q, inexact, e) ==
    IF q = <<>> THEN Zero
    ELSE IF BBitLen(q) <= 53 THEN [k |-> "num", s |-> s, m |-> q, e |-> e]
    ELSE RoundUp(s, q, (15 - ((BBitLen(q) - 53) % 15)) % 15, inexact, e)

\* The double of an integer of the model (under 2^31, so exact).
FromInt(n) ==
    IF n = 0 THEN Zero
    ELSE [k |-> "num", s |-> Sign(n), m |-> BFromInt(Abs(n)), e |-> 0]

DNeg(a) == [a EXCEPT !.s = 0 - a.s]

\* sa * x * 2^e + sb * y * 2^e for signs other than 0; c is BCmp(x, y).
DSum(sa, x, sb, y, c, e) ==
    Round(IF sa = sb \/ c > 0 THEN sa ELSE sb,
          IF sa = sb THEN BAdd(x, y)
          ELSE IF c > 0 THEN BSub(x, y) ELSE BSub(y, x),
          FALSE, e)

DAlign(a, b, e) ==
    DSum(a.s, BShl(a.m, a.e - e), b.s, BShl(b.m, b.e - e),
         BCmp(BShl(a.m, a.e - e), BShl(b.m, b.e - e)), e)

DAdd(a, b) ==
    IF IsNaN(a) \/ IsNaN(b) THEN NaN
    ELSE IF a.k = "inf" /\ b.k = "inf" THEN (IF a.s = b.s THEN a ELSE NaN)
    ELSE IF a.k = "inf" THEN a
    ELSE IF b.k = "inf" THEN b
    ELSE IF a.s = 0 THEN b
    ELSE IF b.s = 0 THEN a
    ELSE DAlign(a, b, Min(a.e, b.e))

DSub(a, b) == DAdd(a, DNeg(b))

DMul(a, b) ==
    IF IsNaN(a) \/ IsNaN(b) THEN NaN
    ELSE IF a.k = "inf" \/ b.k = "inf"
         THEN (IF a.s * b.s = 0 THEN NaN ELSE Inf(a.s * b.s))
    ELSE Round(a.s * b.s, BMul(a.m, b.m), FALSE, a.e + b.e)

\* The quotient of two finite doubles other than 0, the division carried
\* to 56 binary digits or more: qr is the division of a.m * 2^sh by b.m.
DQuot(s, qr, e) == Round(s, qr.q, ~qr.exact, e)

DDivTo(a, b, sh) ==
    DQuot(a.s * b.s, BDiv(BShl(a.m, sh), b.m), a.e - b.e - sh)

DDiv(a, b) ==
    IF IsNaN(a) \/ IsNaN(b) THEN NaN
    ELSE IF a.k = "inf"
         THEN (IF b.k = "inf" THEN NaN ELSE Inf(IF b.s < 0 THEN 0 - a.s ELSE a.s))
    ELSE IF b.k = "inf" THEN Zero
    ELSE IF b.s = 0 THEN (IF a.s = 0 THEN NaN ELSE Inf(a.s))
    ELSE IF a.s = 0 THEN Zero
    ELSE DDivTo(a, b, Max(0, 57 - (BBitLen(a.m) - BBitLen(b.m))))

\* The root of n * 2^(2 * e), for n of 111 binary digits or more: q is
\* floor(sqrt(n)).
DRoot(n, q, e) == Round(1, q, BCmp(BMul(q, q), n) # 0, e)

DSqrtTo(a, sh) == DRoot(BShl(a.m, sh), BSqrt(BShl(a.m, sh)), (a.e - sh) \div 2)

\* Math.sqrt of a double that is not negative.
DSqrt(a) ==
    IF a.k # "num" \/ a.s = 0 THEN a
    ELSE DSqrtTo(a, Max(0, 112 - BBitLen(a.m))
                    + ((a.e - Max(0, 112 - BBitLen(a.m))) % 2))

\* -1, 0, 1 as a < b, a = b, a > b, for a and b other than NaN.
DCmp(a, b) ==
    IF a.k = "inf" \/ b.k = "inf"
    THEN Sign((IF a.k = "inf" THEN a.s ELSE 0) - (IF b.k = "inf" THEN b.s ELSE 0))
    ELSE IF a.s # b.s THEN Sign(a.s - b.s)
    ELSE IF a.s = 0 THEN 0
    ELSE a.s * BCmp(BShl(a.m, a.e - Min(a.e, b.e)), BShl(b.m, b.e - Min(a.e, b.e)))

\* a < b, a > b and a === b as JavaScript decides them: false with a NaN.
DLess(a, b) == ~IsNaN(a) /\ ~IsNaN(b) /\ DCmp(a, b) < 0
DGreater(a, b) == ~IsNaN(a) /\ ~IsNaN(b) /\ DCmp(a, b) > 0
DEqual(a, b) == ~IsNaN(a) /\ ~IsNaN(b) /\ DCmp(a, b) = 0

\* The double a decimal literal num/den stands for (0.35 is Double(35, 100)).
Double(num, den) == DDiv(FromInt(num), FromInt(den))

\* ------------------------------------------------------------ Math.acos
\* Math.acos as the JavaScript engine computes it (V8, after fdlibm's
\* e_acos.c), operation by operation in doubles.  With r = p / q the
\* rational approximation of (asin(sqrt(z)) - sqrt(z)) / sqrt(z):
\*   |x| < 0.5   acos(x) = pio2_hi - (x - (pio2_lo - r * x)),  z = x * x
\*   x <= -0.5   acos(x) = pi - 2 * (s + (r * s - pio2_lo)),
\*               z = (1 + x) * 0.5, s = sqrt(z)
\*   x >= 0.5    acos(x) = 2 * (df + (r * s + c)),  z = (1 - x) * 0.5,
\*               s = sqrt(z), df = s with its low word cleared,
\*               c = (z - df * df) / (s + df)
Half == [k |-> "num", s |-> 1, m |-> <<1>>, e |-> 0 - 1]

\* Math.PI, 0x1.921fb54442d18p+1; fdlibm's pi is the same double.
PI == [k |-> "num", s |-> 1, m |-> <<1443, 21777, 4349, 25>>, e |-> 0 - 48]
\* 0x1.921fb54442d18p+0 and 0x1.1a62633145c07p-54
pio2_hi == [k |-> "num", s |-> 1, m |-> <<1443, 21777, 4349, 25>>, e |-> 0 - 49]
pio2_lo == [k |-> "num", s |-> 1, m |-> <<23559, 26152, 6296, 141>>, e |-> 0 - 106]

\* pS0 .. pS5: 1.66666666666666657415e-01, -3.25565818622400915405e-01,
\* 2.01212532134862925881e-01, -4.00555345006794114027e-02,
\* 7.91534994289814532176e-04, 3.47933107596021167570e-05
pS == << [k |-> "num", s |-> 1, m |-> <<21845, 10922, 21845, 170>>, e |-> 0 - 55],
         [k |-> "num", s |-> 0 - 1, m |-> <<28541, 2006, 22600, 166>>, e |-> 0 - 54],
         [k |-> "num", s |-> 1, m |-> <<17493, 7440, 1364, 206>>, e |-> 0 - 55],
         [k |-> "num", s |-> 0 - 1, m |-> <<3899, 27345, 2210, 164>>, e |-> 0 - 57],
         [k |-> "num", s |-> 1, m |-> <<13905, 7488, 30704, 25>>, e |-> 0 - 60],
         [k |-> "num", s |-> 1, m |-> <<30473, 7163, 30596, 145>>, e |-> 0 - 67] >>
\* one, qS1 .. qS4: 1, -2.40339491173441421878e+00, 2.02094576023350569471e+00,
\* -6.88283971605453293030e-01, 7.70381505559019352791e-02
qS == << FromInt(1),
         [k |-> "num", s |-> 0 - 1, m |-> <<11595, 14612, 26780, 153>>, e |-> 0 - 51],
         [k |-> "num", s |-> 1, m |-> <<12633, 26390, 5490, 16>>, e |-> 0 - 48],
         [k |-> "num", s |-> 0 - 1, m |-> <<345, 14106, 6576, 176>>, e |-> 0 - 53],
         [k |-> "num", s |-> 1, m |-> <<18753, 12590, 29067, 78>>, e |-> 0 - 55] >>

\* Math.abs
DAbs(a) == [a EXCEPT !.s = Abs(a.s)]

\* cs[i] + z * (cs[i+1] + z * (... + z * cs[Len(cs)])), as the code nests it.
RECURSIVE Horner(_, _, _)
Horner(cs, z, i) ==
    IF i = Len(cs) THEN cs[i] ELSE DAdd(cs[i], DMul(z, Horner(cs, z, i + 1)))

\* r = p / q, p = z * (pS0 + z * (...)), q = one + z * (qS1 + z * (...))
AcosR(z) == DDiv(DMul(z, Horner(pS, z, 1)), Horner(qS, z, 1))

\* SET_LOW_WORD(df, 0): of the 53 binary digits of a, the 21 highest.
ClearLowWord(a) ==
    IF BBitLen(a.m) <= 21 THEN a
    ELSE [a EXCEPT !.m = BDiv(a.m, BShl(<<1>>, BBitLen(a.m) - 21)).q,
                   !.e = a.e + (BBitLen(a.m) - 21)]

\* |x| < 0.5
AcosSmall(x, r) ==
    IF IsNaN(r) THEN NaN
    ELSE DSub(pio2_hi, DSub(x, DSub(pio2_lo, DMul(r, x))))

\* x <= -0.5 and x >= 0.5, from z, s = sqrt(z), df and r
AcosFromRoot(x, z, s, df, r) ==
    IF IsNaN(s) \/ IsNaN(r) THEN NaN
    ELSE IF x.s < 0
         THEN DSub(PI, DMul(FromInt(2), DAdd(s, DSub(DMul(r, s), pio2_lo))))
    ELSE DMul(FromInt(2),
              DAdd(df, DAdd(DMul(r, s), DDiv(DSub(z, DMul(df, df)), DAdd(s, df)))))

AcosLarge(x, z, s) ==
    IF IsNaN(z) THEN NaN ELSE AcosFromRoot(x, z, s, ClearLowWord(s), AcosR(z))

\* Math.acos.  A magnitude under (1 + 2^-20) * 2^-57 (high word up to
\* 0x3c600000) gives pi/2.
Acos(x) ==
    IF IsNaN(x) \/ DGreater(DAbs(x), FromInt(1)) THEN NaN
    ELSE IF DEqual(DAbs(x), FromInt(1))
         THEN (IF x.s > 0 THEN Zero ELSE DAdd(PI, DMul(FromInt(2), pio2_lo)))
    ELSE IF DLess(DAbs(x), Half)
         THEN (IF DLess(DAbs(x), [k |-> "num", s |-> 1, m |-> <<1, 32>>, e |-> 0 - 77])
               THEN DAdd(pio2_hi, pio2_lo)
               ELSE AcosSmall(x, AcosR(DMul(x, x))))
    ELSE IF x.s < 0
         THEN AcosLarge(x, DMul(DAdd(FromInt(1), x), Half),
                        DSqrt(DMul(DAdd(FromInt(1), x), Half)))
    ELSE AcosLarge(x, DMul(DSub(FromInt(1), x), Half),
                   DSqrt(DMul(DSub(FromInt(1), x), Half)))

\* Math.max and Math.min of two numbers
DMax(a, b) == IF IsNaN(a) \/ IsNaN(b) THEN NaN ELSE IF DLess(a, b) THEN b ELSE a
DMin(a, b) == IF IsNaN(a) \/ IsNaN(b) THEN NaN ELSE IF DLess(b, a) THEN b ELSE a

\* ------------------------------------------------- geometry predicates
\* sqrt(measureSq) / (sqrt(norm1Sq) * sqrt(norm2Sq)) < tolerance as the code
\* decides it in doubles, for norm1Sq, norm2Sq > 0 and a tolerance num/den
\* with den > 0.  The exact quotient and num/den, when they differ, differ
\* by more than 2^-32 of their size (the integers compared below are under
\* 2^31), and the five roundings of the code (three square roots, a
\* product, a quotient) and that of the literal move neither by more than
\* 2^-50 of it: the integers decide.  When the two are equal the roundings
\* decide, and the doubles are computed.
BelowTolerance(measureSq, norm1Sq, norm2Sq, tolerance) ==
    LET lhs == measureSq * Sq(tolerance[2])
        rhs == Sq(tolerance[1]) * norm1Sq * norm2Sq
    IN  /\ tolerance[1] > 0
        /\ IF lhs # rhs THEN lhs < rhs
           ELSE DLess(DDiv(DSqrt(FromInt(measureSq)),
                           DMul(DSqrt(FromInt(norm1Sq)), DSqrt(FromInt(norm2Sq)))),
                      Double(tolerance[1], tolerance[2]))

\* Mutant: zero-length vectors count as colinear.
ArePointsColinear_DegenerateTrue(p1, p2, p3, tolerance) ==
    LET v1 == <<p2.x - p1.x, p2.y - p1.y, p2.z - p1.z>>
        v2 == <<p3.x - p1.x, p3.y - p1.y, p3.z - p1.z>>
        cross == << v1[2]*v2[3] - v1[3]*v2[2],
                    v1[3]*v2[1] - v1[1]*v2[3],
                    v1[1]*v2[2] - v1[2]*v2[1] >>
        crossNormSq == Sq(cross[1]) + Sq(cross[2]) + Sq(cross[3])
        v1NormSq == Sq(v1[1]) + Sq(v1[2]) + Sq(v1[3])
        v2NormSq == Sq(v2[1]) + Sq(v2[2]) + Sq(v2[3])
    IN  IF v1NormSq * v2NormSq = 0 THEN TRUE
        ELSE BelowTolerance(crossNormSq, v1NormSq, v2NormSq, tolerance)

ArePointsColinear(p1, p2, p3, tolerance) ==
    LET v1 == <<p2.x - p1.x, p2.y - p1.y, p2.z - p1.z>>
        v2 == <<p3.x - p1.x, p3.y - p1.y, p3.z - p1.z>>
        cross == << v1[2]*v2[3] - v1[3]*v2[2],
                    v1[3]*v2[1] - v1[1]*v2[3],
                    v1[1]*v2[2] - v1[2]*v2[1] >>
        crossNormSq == Sq(cross[1]) + Sq(cross[2]) + Sq(cross[3])
        v1NormSq == Sq(v1[1]) + Sq(v1[2]) + Sq(v1[3])
        v2NormSq == Sq(v2[1]) + Sq(v2[2]) + Sq(v2[3])
    IN  IF v1NormSq * v2NormSq = 0 THEN FALSE
        ELSE BelowTolerance(crossNormSq, v1NormSq, v2NormSq, tolerance)

\* dot / (norm1 * norm2)
CosTheta(dot, norm1Sq, norm2Sq) ==
    DDiv(FromInt(dot), DMul(DSqrt(FromInt(norm1Sq)), DSqrt(FromInt(norm2Sq))))

\* Math.acos(Math.min(1, Math.max(-1, cosTheta))) * 180 / Math.PI
AngleDeg(cosTheta) ==
    IF IsNaN(cosTheta) THEN NaN
    ELSE DDiv(DMul(Acos(DMin(FromInt(1), DMax(FromInt(0 - 1), cosTheta))),
                   FromInt(180)), PI)

\* angleDeg < toleranceDeg || Math.abs(180 - angleDeg) < toleranceDeg
AngleBelow(angleDeg, toleranceDeg) ==
    \/ DLess(angleDeg, toleranceDeg)
    \/ DLess(DAbs(DSub(FromInt(180), angleDeg)), toleranceDeg)

\* Two fractions <<below, above>> with cos^2(toleranceDeg) between them:
\* cos^2(20 deg) = 0.88302222..., cos^2(45 deg) = 1/2, cos^2(90 deg) = 0.
\* For another tolerance they are 0 and 1, which say nothing.
CosSqBounds(toleranceDeg) ==
    CASE toleranceDeg = 20 -> << <<883, 1000>>, <<8831, 10000>> >>
      [] toleranceDeg = 45 -> << <<4999, 10000>>, <<5001, 10000>> >>
      [] toleranceDeg = 90 -> << <<0, 1>>, <<1, 10000>> >>
      [] OTHER -> << <<0, 1>>, <<1, 1>> >>

\* cosSq[2] * dotSq against cosSq[1] * normSq, as -1, 0, 1: the squared
\* cosine of the angle against the fraction cosSq, in whole numbers of any
\* size.
CosSqCmp(dotSq, normSq, cosSq) ==
    BCmp(BMul(dotSq, BFromInt(cosSq[2])), BMul(normSq, BFromInt(cosSq[1])))

\* angleDeg < toleranceDeg \/ |180 - angleDeg| < toleranceDeg, where
\* angleDeg = acos(clamp(dot / (norm1*norm2))) * 180 / pi, for norm1Sq and
\* norm2Sq > 0 and a whole number of degrees.  angleDeg is a number from 0
\* to 180.00000000000003, so the test fails for every tolerance <= 0 and
\* holds for every tolerance >= 91.  It is settled by the squared cosine
\* of the angle when that is outside the bounds of CosSqBounds: the angle
\* is then more than a thousandth of a degree away from toleranceDeg and
\* from 180 - toleranceDeg, and angleDeg is within a millionth of a degree
\* of the angle.  Inside the bounds the doubles are computed.
AngleWithinTolerance(dot, norm1Sq, norm2Sq, toleranceDeg) ==
    LET dotSq == BMul(BFromInt(Abs(dot)), BFromInt(Abs(dot)))
        normSq == BMul(BFromInt(norm1Sq), BFromInt(norm2Sq))
    IN  IF toleranceDeg <= 0 THEN FALSE
        ELSE IF toleranceDeg > 90 THEN TRUE
        ELSE IF CosSqCmp(dotSq, normSq, CosSqBounds(toleranceDeg)[2]) > 0 THEN TRUE
        ELSE IF CosSqCmp(dotSq, normSq, CosSqBounds(toleranceDeg)[1]) < 0 THEN FALSE
        ELSE AngleBelow(AngleDeg(CosTheta(dot, norm1Sq, norm2Sq)),
                        FromInt(toleranceDeg))

AreLinesParallel2D(p1, p2, q1, q2, toleranceDeg) ==
    LET v1 == <<p2.x - p1.x, p2.y - p1.y>>
        v2 == <<q2.x - q1.x, q2.y - q1.y>>
        dot == v1[1]*v2[1] + v1[2]*v2[2]
        norm1Sq == Sq(v1[1]) + Sq(v1[2])
        norm2Sq == Sq(v2[1]) + Sq(v2[2])
    IN  IF norm1Sq = 0 \/ norm2Sq = 0 THEN FALSE
        ELSE AngleWithinTolerance(dot, norm1Sq, norm2Sq, toleranceDeg)

ArePointsColinear2D(p1, p2, p3, tolerance) ==
    LET v1 == <<p2.x - p1.x, p2.y - p1.y>>
        v2 == <<p3.x - p1.x, p3.y - p1.y>>
        cross == v1[1] * v2[2] - v1[2] * v2[1]
        area == Abs(cross)
        v1LenSq == Sq(v1[1]) + Sq(v1[2])
        v2LenSq == Sq(v2[1]) + Sq(v2[2])
    IN  IF v1LenSq * v2LenSq = 0 THEN FALSE
        ELSE BelowTolerance(Sq(area), v1LenSq, v2LenSq, tolerance)

\* ---------------------------------------------------- feature extractors
FingerTolerance == <<3, 20>>

IsFingerStraight(hand, mcpIdx, pipIdx, dipIdx, tipIdx, tolerance) ==
    LET mcp == At(hand, mcpIdx)
        pip == At(hand, pipIdx)
        dip == At(hand, dipIdx)
        tip == At(hand, tipIdx)
    IN  /\ ArePointsColinear2D(mcp, pip, tip, tolerance)
        /\ ArePointsColinear2D(pip, dip, tip, tolerance)

Count(b) == IF b THEN 1 ELSE 0

\* Mutant: two straight fingers are enough.
IsHandOpen_TwoFingers(hand) ==
    IF hand = Absent THEN FALSE
    ELSE LET straightCount ==
                 Count(IsFingerStraight(hand, 5, 6, 7, 8, FingerTolerance))
               + Count(IsFingerStraight(hand, 9, 10, 11, 12, FingerTolerance))
               + Count(IsFingerStraight(hand, 13, 14, 15, 16, FingerTolerance))
               + Count(IsFingerStraight(hand, 17, 18, 19, 20, FingerTolerance))
         IN  straightCount >= 2

IsHandOpen(hand) ==
    IF hand = Absent THEN FALSE
    ELSE LET straightCount ==
                 Count(IsFingerStraight(hand, 5, 6, 7, 8, FingerTolerance))
               + Count(IsFingerStraight(hand, 9, 10, 11, 12, FingerTolerance))
               + Count(IsFingerStraight(hand, 13, 14, 15, 16, FingerTolerance))
               + Count(IsFingerStraight(hand, 17, 18, 19, 20, FingerTolerance))
         IN  straightCount >= 3

\* ------------------------------------------------------------ hand rules
\* Mutant: the thumb must be tucked in as well (its tip below its ip joint).
CheckMiddleFinger_ThumbTucked(landmarks) ==
    IF /\ At(landmarks, 12).y < At(landmarks, 10).y
       /\ At(landmarks, 8).y > At(landmarks, 6).y
       /\ At(landmarks, 16).y > At(landmarks, 14).y
       /\ At(landmarks, 20).y > At(landmarks, 18).y
       /\ At(landmarks, 4).y > At(landmarks, 3).y
    THEN "Middle Finger"
    ELSE NoLabel

CheckMiddleFinger(landmarks) ==
    LET indexTip == At(landmarks, 8)
        indexPip == At(landmarks, 6)
        middleTip == At(landmarks, 12)
        middlePip == At(landmarks, 10)
        ringTip == At(landmarks, 16)
        ringPip == At(landmarks, 14)
        pinkyTip == At(landmarks, 20)
        pinkyPip == At(landmarks, 18)
    IN  IF /\ middleTip.y < middlePip.y
           /\ indexTip.y > indexPip.y
           /\ ringTip.y > ringPip.y
           /\ pinkyTip.y > pinkyPip.y
        THEN "Middle Finger"
        ELSE NoLabel

ParallelToleranceDeg == 20

\* Mutant: the hands need not be open, only parallel.
CheckOpenPalm_NoOpenCheck(leftHand, rightHand) ==
    IF leftHand = Absent \/ rightHand = Absent THEN NoLabel
    ELSE IF AreLinesParallel2D(At(leftHand, 0), At(leftHand, 12), At(rightHand, 0),
                               At(rightHand, 12), 20)
         THEN "Open Palm"
         ELSE NoLabel

CheckOpenPalm(leftHand, rightHand) ==
    IF leftHand = Absent \/ rightHand = Absent THEN NoLabel
    ELSE IF ~IsHandOpen(leftHand) \/ ~IsHandOpen(rightHand) THEN NoLabel
    ELSE LET leftWrist == At(leftHand, 0)
             rightWrist == At(rightHand, 0)
             leftMiddle == At(leftHand, 12)
             rightMiddle == At(rightHand, 12)
         IN  IF AreLinesParallel2D(leftWrist, leftMiddle, rightWrist,
                                   rightMiddle, ParallelToleranceDeg)
             THEN "Open Palm"
             ELSE NoLabel

\* The square of the distance the code returns (Math.sqrt(dx*dx + dy*dy)).
Distance2DSq(p1, p2) ==
    LET dx == p1.x - p2.x
        dy == p1.y - p2.y
    IN  dx*dx + dy*dy

jointIdx == <<3, 6, 10, 14, 18>>
threshold == 40

\* Mutant: a pair exactly `threshold` apart counts (d <= threshold).
CheckFingerInterlocked_Inclusive(leftHand, rightHand) ==
    IF leftHand = Absent \/ rightHand = Absent THEN NoLabel
    ELSE LET interlockedCount ==
                 Cardinality({i \in 1..Len(jointIdx) :
                     Distance2DSq(At(leftHand, jointIdx[i]),
                                  At(rightHand, jointIdx[i])) <= Sq(threshold)})
         IN  IF interlockedCount >= 3 THEN "Finger Interlocked" ELSE NoLabel

CheckFingerInterlocked(leftHand, rightHand) ==
    IF leftHand = Absent \/ rightHand = Absent THEN NoLabel
    ELSE LET interlockedCount ==
                 Cardinality({i \in 1..Len(jointIdx) :
                     Distance2DSq(At(leftHand, jointIdx[i]),
                                  At(rightHand, jointIdx[i])) < Sq(threshold)})
         IN  IF interlockedCount >= 3 THEN "Finger Interlocked" ELSE NoLabel

\* hands.find(h => h.handedness === tag): the first such hand, 0 if none.
FindHand(hs, tag) ==
    LET S == {i \in 1..Len(hs) : hs[i].handedness = tag}
    IN  IF S = {} THEN 0 ELSE CHOOSE i \in S : \A j \in S : i <= j

\* Phase 2 of detectGesture: the loop over the hands, in order.
SingleHandRules(hs) ==
    LET S == {i \in 1..Len(hs) :
                 /\ hs[i].keypoints # Absent
                 /\ CheckMiddleFinger(hs[i].keypoints) # NoLabel}
    IN  IF S = {} THEN NoLabel
        ELSE CheckMiddleFinger(hs[CHOOSE i \in S : \A j \in S : i <= j].keypoints)

\* Mutant: Open Palm is tried before Finger Interlocked.
TwoHandRules_PalmFirst(hs) ==
    IF Len(hs) >= 2
    THEN LET l == FindHand(hs, "Left")
             r == FindHand(hs, "Right")
         IN  IF l # 0 /\ r # 0
             THEN LET leftLm == hs[l].keypoints
                      rightLm == hs[r].keypoints
                  IN  IF leftLm # Absent /\ rightLm # Absent
                      THEN LET g == CheckOpenPalm(leftLm, rightLm)
                           IN  IF g # NoLabel THEN g
                               ELSE CheckFingerInterlocked(leftLm, rightLm)
                      ELSE NoLabel
             ELSE NoLabel
    ELSE NoLabel

\* Mutant: the first two hands are taken, whatever their handedness.
TwoHandRules_AnyTwo(hs) ==
    IF Len(hs) >= 2
    THEN LET leftLm == hs[1].keypoints
             rightLm == hs[2].keypoints
         IN  IF leftLm # Absent /\ rightLm # Absent
             THEN LET g == CheckFingerInterlocked(leftLm, rightLm)
                  IN  IF g # NoLabel THEN g
                      ELSE CheckOpenPalm(leftLm, rightLm)
             ELSE NoLabel
    ELSE NoLabel

\* Phase 1 of detectGesture: the two-hand rules, NoLabel if none fires.
TwoHandRules(hs) ==
    IF Len(hs) >= 2
    THEN LET l == FindHand(hs, "Left")
             r == FindHand(hs, "Right")
         IN  IF l # 0 /\ r # 0
             THEN LET leftLm == hs[l].keypoints
                      rightLm == hs[r].keypoints
                  IN  IF leftLm # Absent /\ rightLm # Absent
                      THEN LET g == CheckFingerInterlocked(leftLm, rightLm)
                           IN  IF g # NoLabel THEN g
                               ELSE CheckOpenPalm(leftLm, rightLm)
                      ELSE NoLabel
             ELSE NoLabel
    ELSE NoLabel

DetectGesture(hs) ==
    IF Len(hs) = 0 THEN NoLabel
    ELSE LET g == TwoHandRules(hs)
         IN  IF g # NoLabel THEN g ELSE SingleHandRules(hs)

\* ------------------------------------------------ frames of the provider
\* What detector.estimateHands delivers: hands built from a wrist position,
\* an orientation, a thumb and one pose per finger (index, middle, ring,
\* pinky).  Offsets are <<dx, dy>>, y growing downwards as in the image.

\* pip, dip, tip relative to the finger's mcp.
PoseJoints(pose) ==
    CASE pose = "S" -> << <<0, -4>>, <<0, -8>>, <<0, -12>> >>   \* straight
      [] pose = "B" -> << <<0, -4>>, <<0, -8>>, <<1, -12>> >>   \* nearly so
      [] pose = "K" -> << <<0, -4>>, <<1, -8>>, <<0, -12>> >>   \* dip off line
      [] pose = "C" -> << <<0, -4>>, <<3, -4>>, <<3, 0>> >>     \* curled
      [] pose = "Z" -> << <<0, 0>>, <<0, 0>>, <<0, 0>> >>       \* collapsed

Poses == {"S", "B", "K", "C", "Z"}

ThumbJoints(thumb) ==
    CASE thumb = "out" -> << <<-8, -2>>, <<-10, -5>>, <<-11, -8>>, <<-12, -10>> >>
      [] thumb = "in"  -> << <<-4, -2>>, <<-3, -4>>, <<-2, -6>>, <<-1, -7>> >>
      [] thumb = "far" -> << <<-8, -2>>, <<-30, -5>>, <<-50, -8>>, <<-60, -10>> >>

Thumbs == {"out", "in", "far"}

Plus(a, b) == <<a[1] + b[1], a[2] + b[2]>>

FingerOffsets(f, pose) ==
    LET m == << <<-6, -8>>, <<-2, -8>>, <<2, -8>>, <<6, -8>> >>[f]
        j == PoseJoints(pose)
    IN  <<m, Plus(m, j[1]), Plus(m, j[2]), Plus(m, j[3])>>

\* The 21 offsets from the wrist, in landmark order 0..20.
LocalHand(thumb, shape) ==
    << <<0, 0>> >> \o ThumbJoints(thumb)
        \o FingerOffsets(1, shape[1]) \o FingerOffsets(2, shape[2])
        \o FingerOffsets(3, shape[3]) \o FingerOffsets(4, shape[4])

Orient(orient, v) ==
    CASE orient = "up"   -> v
      [] orient = "down" -> <<-v[1], -v[2]>>
      [] orient = "side" -> <<-v[2], v[1]>>

\* scale 0 puts every landmark on the wrist.
MkKeypoints(origin, orient, scale, thumb, shape) ==
    LET loc == LocalHand(thumb, shape)
    IN  [i \in 1..21 |->
            LET v == Orient(orient, loc[i])
            IN  [x |-> origin[1] + scale * v[1], y |-> origin[2] + scale * v[2]]]

\* keypoints3D: model-space points, or Absent when the provider gives none.
MkKeypoints3D(kind, kp) ==
    CASE kind = "none" \/ kp = Absent -> Absent
      [] kind = "a" -> [i \in 1..21 |-> [x |-> kp[i].x, y |-> kp[i].y, z |-> i % 3]]
      [] kind = "b" -> [i \in 1..21 |-> [x |-> kp[i].y, y |-> 0 - kp[i].x, z |-> 0 - i]]

MkHand(tag, kind3D, kp) ==
    [handedness |-> tag, keypoints |-> kp, keypoints3D |-> MkKeypoints3D(kind3D, kp)]

Open == <<"S", "S", "S", "S">>
Fist == <<"C", "C", "C", "C">>

\* Wrist positions: O1 is 24 right of O0, O2 exactly 40 right of it, O5
\* far away; a hand turned down at O3 or O4 faces one turned up at O0.
O0 == <<60, 60>>
O1 == <<84, 60>>
O2 == <<100, 60>>
O3 == <<96, 36>>
O4 == <<94, 36>>
O5 == <<150, 60>>

PresetKeypoints ==
    { MkKeypoints(O0, "up", 1, "out", Open),
      MkKeypoints(O1, "up", 1, "out", Open),
      MkKeypoints(O2, "up", 1, "out", Open),
      MkKeypoints(O3, "down", 1, "out", Open),
      MkKeypoints(O4, "down", 1, "out", Open),
      MkKeypoints(O5, "side", 1, "in", Open),
      MkKeypoints(O0, "up", 1, "in", Fist),
      MkKeypoints(O5, "up", 1, "out", Fist),
      MkKeypoints(O5, "up", 1, "out", <<"C", "S", "C", "C">>),
      MkKeypoints(O1, "up", 1, "in", <<"S", "K", "K", "S">>),
      MkKeypoints(O5, "up", 0, "out", Open),
      Absent }

PresetHands ==
    {MkHand(t, IF t = "Unknown" THEN "none" ELSE "a", kp) :
        t \in {"Left", "Right", "Unknown"}, kp \in PresetKeypoints}

\* One hand in every combination of finger poses, thumbs and orientations.
SingleHands ==
    {MkHand("Right", k, MkKeypoints(O0, o, 1, th, <<a, b, c, d>>)) :
        k \in {"none", "b"}, o \in {"up", "down"}, th \in Thumbs,
        a \in Poses, b \in Poses, c \in Poses, d \in Poses}

Frames ==
    UNION {[1..n -> PresetHands] : n \in 0..MaxHands}
        \cup {<<h>> : h \in SingleHands}

\* ------------------------------------------------------------ hand demo
\* renderResult up to the await of detector.estimateHands: the provider's
\* frame arrives in the local `hands`.
EstimateHands ==
    /\ app = "hand"
    /\ pc = "idle"
    /\ \E frame \in Frames : hands' = frame
    /\ pc' = "estimated"
    /\ UNCHANGED <<app, gesture, faces, gazes, console, fn, args, ret>>
    /\ UNCHANGED loopVars

\* camera.drawResults(hands), which is handed the array itself before
\* detectGesture reads it.  The camera module is not among the sources and
\* the specification leaves drawing to it, so every array it can leave
\* behind within the bound is taken: the hands in any order, followed by
\* any number of hands without tag and landmarks (an array padded for the
\* drawing is why detectGesture passes over hands without keypoints).
DrawResults(hs) ==
    {[i \in 1..n |->
        IF i <= Len(hs) THEN hs[p[i]]
        ELSE [handedness |-> "undefined", keypoints |-> Absent, keypoints3D |-> Absent]] :
     p \in Permutations(1..Len(hs)), n \in Len(hs)..Max(Len(hs), MaxHands)}

\* renderResult after the await: camera.drawResults(hands), then
\* detectGesture(hands) and its console.log.  `hands` becomes the array as
\* detectGesture reads it.  STATE.isModelChanged stays false: the option
\* panel is left alone here.
ClassifyHands ==
    /\ app = "hand"
    /\ pc = "estimated"
    /\ \E drawn \in (IF Len(hands) > 0 THEN DrawResults(hands) ELSE {hands}) :
          /\ hands' = drawn
          /\ gesture' = IF Len(hands) > 0 THEN DetectGesture(drawn) ELSE NoLabel
    /\ console' = IF gesture' # NoLabel THEN gesture' ELSE console
    /\ pc' = "detected"
    /\ UNCHANGED <<app, faces, gazes, fn, args, ret>>
    /\ UNCHANGED loopVars

\* renderResult returns; its locals are gone and the next frame is asked for.
ReturnHands ==
    /\ app = "hand"
    /\ pc = "detected"
    /\ hands' = Absent
    /\ gesture' = NoLabel
    /\ pc' = "idle"
    /\ UNCHANGED <<app, faces, gazes, console, fn, args, ret>>
    /\ UNCHANGED loopVars

\* ------------------------------------------------------------ face demo
RECURSIVE SumSeq(_)
SumSeq(s) == IF s = <<>> THEN 0 ELSE Head(s) + SumSeq(Tail(s))

\* {x: sumX / n, y: sumY / n}: the sums are integers, which the doubles
\* hold exactly; the quotients are rounded.
GetIrisCenter(irisPoints) ==
    [x |-> DDiv(FromInt(SumSeq([i \in 1..Len(irisPoints) |-> irisPoints[i].x])),
                FromInt(Len(irisPoints))),
     y |-> DDiv(FromInt(SumSeq([i \in 1..Len(irisPoints) |-> irisPoints[i].y])),
                FromInt(Len(irisPoints)))]

LeftEye(kps) ==
    [left |-> kps[33], right |-> kps[133], top |-> kps[159], bottom |-> kps[145],
     pupil |-> GetIrisCenter(<<kps[468], kps[469], kps[470], kps[471], kps[472]>>),
     center |-> kps[468]]

RightEye(kps) ==
    [left |-> kps[362], right |-> kps[263], top |-> kps[386], bottom |-> kps[374],
     pupil |-> GetIrisCenter(<<kps[473], kps[474], kps[475], kps[476], kps[477]>>),
     center |-> kps[473]]

\* (eye.pupil.x - eye.left.x) / (eye.right.x - eye.left.x)
EyeRelX(eye) ==
    DDiv(DSub(eye.pupil.x, FromInt(eye.left.x)),
         DSub(FromInt(eye.right.x), FromInt(eye.left.x)))

\* (eye.pupil.y - eye.top.y) / (eye.bottom.y - eye.top.y)
EyeRelY(eye) ==
    DDiv(DSub(eye.pupil.y, FromInt(eye.top.y)),
         DSub(FromInt(eye.bottom.y), FromInt(eye.top.y)))

RelX(face) ==
    DDiv(DAdd(EyeRelX(LeftEye(face.keypoints)), EyeRelX(RightEye(face.keypoints))),
         FromInt(2))

RelY(face) ==
    DDiv(DAdd(EyeRelY(LeftEye(face.keypoints)), EyeRelY(RightEye(face.keypoints))),
         FromInt(2))

\* Mutant: the vertical tests come before the horizontal ones.
DetectGazeDirection_VerticalFirst(face) ==
    LET relX == RelX(face)
        relY == RelY(face)
    IN  IF DLess(relY, Double(3, 10)) /\ DGreater(relY, Zero) THEN "UP"
        ELSE IF DLess(relY, Zero) THEN "DOWN"
        ELSE IF DLess(relX, Double(35, 100)) THEN "RIGHT"
        ELSE IF DGreater(relX, Double(65, 100)) THEN "LEFT"
        ELSE "CENTER"

\* Mutant: relY = 0 counts as UP (relY >= 0).
DetectGazeDirection_ZeroIsUp(face) ==
    LET relX == RelX(face)
        relY == RelY(face)
    IN  IF DLess(relX, Double(35, 100)) THEN "RIGHT"
        ELSE IF DGreater(relX, Double(65, 100)) THEN "LEFT"
        ELSE IF DLess(relY, Double(3, 10)) /\ ~DLess(relY, Zero) /\ ~IsNaN(relY) THEN "UP"
        ELSE IF DLess(relY, Zero) THEN "DOWN"
        ELSE "CENTER"

DetectGazeDirection(face) ==
    LET relX == RelX(face)
        relY == RelY(face)
    IN  IF DLess(relX, Double(35, 100)) THEN "RIGHT"
        ELSE IF DGreater(relX, Double(65, 100)) THEN "LEFT"
        ELSE IF DLess(relY, Double(3, 10)) /\ DGreater(relY, Zero) THEN "UP"
        ELSE IF DLess(relY, Zero) THEN "DOWN"
        ELSE "CENTER"

\* What detector.estimateFaces delivers.  Of the 478 landmarks a face
\* carries those detectGazeDirection reads.  An eye is its width w, height
\* h, the offset <<px, py>> of its iris cluster from the left corner and
\* the top lid, sk, by which the cluster's centre landmark lies off the
\* cluster, and <<ox, oy>>, by which the last point of the cluster is moved:
\* with ox = oy = 0 the mean of the cluster is the integer point at <<px,
\* py>>, otherwise the sums are no multiples of 5 and the mean is rounded.
FaceIdx == {33, 133, 159, 145, 362, 263, 386, 374} \cup (468..477)

EyePoints(ax, ay, e) ==
    LET c == <<ax + e.px - e.sk, ay + e.py - e.sk>>
    IN  [left |-> [x |-> ax, y |-> ay + 5],
         right |-> [x |-> ax + e.w, y |-> ay + 5],
         top |-> [x |-> ax + 10, y |-> ay],
         bottom |-> [x |-> ax + 10, y |-> ay + e.h],
         iris |-> << [x |-> c[1], y |-> c[2]],
                     [x |-> c[1] + 3 + 5 * e.sk, y |-> c[2] + 5 * e.sk],
                     [x |-> c[1] - 3, y |-> c[2]],
                     [x |-> c[1], y |-> c[2] + 3],
                     [x |-> c[1] + e.ox, y |-> c[2] - 3 + e.oy] >>]

MkFace(eyeL, eyeR) ==
    LET l == EyePoints(100, 50, eyeL)
        r == EyePoints(200, 50, eyeR)
    IN  [keypoints |->
          [i \in FaceIdx |->
            CASE i = 33 -> l.left [] i = 133 -> l.right
              [] i = 159 -> l.top [] i = 145 -> l.bottom
              [] i = 362 -> r.left [] i = 263 -> r.right
              [] i = 386 -> r.top [] i = 374 -> r.bottom
              [] i \in 468..472 -> l.iris[i - 467]
              [] i \in 473..477 -> r.iris[i - 472]]]

Eye(w, px, h, py, sk) ==
    [w |-> w, px |-> px, h |-> h, py |-> py, sk |-> sk, ox |-> 0, oy |-> 0]
EyeMoved(w, px, h, py, ox, oy) ==
    [w |-> w, px |-> px, h |-> h, py |-> py, sk |-> 0, ox |-> ox, oy |-> oy]

LeftEyes ==
    {Eye(20, px, 10, py, 0) : px \in {5, 7, 10, 13, 15}, py \in {-2, 0, 2, 3, 5}}
      \cup {Eye(0, px, 10, 2, 0) : px \in {-3, 0, 3}}
      \cup {Eye(20, 10, 0, py, 0) : py \in {-2, 0, 2}}
      \cup {Eye(20, px, 10, py, 1) : px \in {7, 13}, py \in {0, 3}}

\* The right eye: at the left eye's ratios, or fixed.
RightEyes(eyeL) ==
    {eyeL, Eye(10, 5, 5, 1, 0), Eye(0, -3, 0, -2, 0)}

\* Faces whose ratios, computed without rounding, are exactly 0.35, 0.65
\* (relX), 0, 0 and 0.3 (relY, the pupils at mid-width).
RoundedFaces ==
    { MkFace(EyeMoved(20, 3, 10, 0, 4, 0), EyeMoved(20, 10, 10, 0, 1, 0)),
      MkFace(EyeMoved(20, 13, 10, -3, -4, 0), EyeMoved(20, 13, 10, 3, 4, 0)),
      MkFace(EyeMoved(20, 10, 10, -3, 0, 3), EyeMoved(10, 5, 5, 1, 0, 1)),
      MkFace(EyeMoved(20, 10, 10, -3, 0, -3), EyeMoved(10, 5, 5, 1, 0, 4)),
      MkFace(EyeMoved(20, 10, 10, -3, 0, -3), EyeMoved(10, 5, 5, 4, 0, 4)) }

Faces ==
    UNION {{MkFace(eyeL, eyeR) : eyeR \in RightEyes(eyeL)} : eyeL \in LeftEyes}
      \cup RoundedFaces

\* The faces that follow the first one of a frame.
MoreFaces ==
    { MkFace(Eye(20, 10, 10, 0, 0), Eye(20, 10, 10, 0, 0)),
      MkFace(Eye(20, 5, 10, -2, 0), Eye(20, 5, 10, -2, 0)),
      MkFace(EyeMoved(20, 10, 10, -3, 0, 3), EyeMoved(10, 5, 5, 1, 0, 1)) }

FaceFrames ==
    {<<>>} \cup UNION {{<<f>> \o more : f \in Faces, more \in [1..n -> MoreFaces]} :
                        n \in 0..(MaxFaces - 1)}

\* renderResult up to the await of detector.estimateFaces.
EstimateFaces ==
    /\ app = "face"
    /\ pc = "idle"
    /\ \E frame \in FaceFrames : faces' = frame
    /\ pc' = "estimated"
    /\ UNCHANGED <<app, hands, gesture, gazes, console, fn, args, ret>>
    /\ UNCHANGED loopVars

\* renderResult after the await: detectGazeDirection(face) and its
\* console.log, for every face in order.
ClassifyFaces ==
    /\ app = "face"
    /\ pc = "estimated"
    /\ gazes' = [i \in 1..Len(faces) |-> DetectGazeDirection(faces[i])]
    /\ console' = IF Len(faces) > 0 THEN gazes'[Len(faces)] ELSE console
    /\ pc' = "detected"
    /\ UNCHANGED <<app, hands, gesture, faces, fn, args, ret>>
    /\ UNCHANGED loopVars

ReturnFaces ==
    /\ app = "face"
    /\ pc = "detected"
    /\ faces' = <<>>
    /\ gazes' = <<>>
    /\ pc' = "idle"
    /\ UNCHANGED <<app, hands, gesture, console, fn, args, ret>>
    /\ UNCHANGED loopVars

\* ------------------------------------------------- the functions, called
\* Each predicate applied to arguments drawn from a grid; `fn`, `args`
\* and `ret` hold the call and what it returned.
Grid == 0..GridMax
Points2D == {[x |-> a, y |-> b] : a \in Grid, b \in Grid}
Points3D == {[x |-> a, y |-> b, z |-> c] : a \in Grid, b \in Grid, c \in Grid}

\* 8e-2, 0.1, 0.15 and 0.3 are the tolerances of the code.
Tolerances == {<<0 - 1, 10>>, <<0, 1>>, <<2, 25>>, <<1, 10>>, <<3, 20>>, <<3, 10>>, <<2, 1>>}
TolerancesDeg == {0 - 10, 0, 20, 45, 46, 90, 180, 200}

CallArePointsColinear ==
    /\ pc = "idle"
    /\ \E p1 \in {[x |-> 0, y |-> 0, z |-> 0], [x |-> 1, y |-> 1, z |-> 1]},
          p2 \in Points3D, p3 \in Points3D, t \in Tolerances :
          /\ args' = <<p1, p2, p3, t>>
          /\ ret' = ArePointsColinear(p1, p2, p3, t)
    /\ fn' = "arePointsColinear"
    /\ pc' = "called"
    /\ UNCHANGED <<app, hands, gesture, faces, gazes, console>>
    /\ UNCHANGED loopVars

CallArePointsColinear2D ==
    /\ pc = "idle"
    /\ \E p1 \in {[x |-> 0, y |-> 0], [x |-> 1, y |-> 1]},
          p2 \in Points2D, p3 \in Points2D, t \in Tolerances :
          /\ args' = <<p1, p2, p3, t>>
          /\ ret' = ArePointsColinear2D(p1, p2, p3, t)
    /\ fn' = "arePointsColinear2D"
    /\ pc' = "called"
    /\ UNCHANGED <<app, hands, gesture, faces, gazes, console>>
    /\ UNCHANGED loopVars

CallAreLinesParallel2D ==
    /\ pc = "idle"
    /\ \E p1 \in {[x |-> 0, y |-> 0], [x |-> 1, y |-> 1]},
          q1 \in {[x |-> 0, y |-> 0], [x |-> GridMax, y |-> 0]},
          p2 \in Points2D, q2 \in Points2D, t \in TolerancesDeg :
          /\ args' = <<p1, p2, q1, q2, t>>
          /\ ret' = AreLinesParallel2D(p1, p2, q1, q2, t)
    /\ fn' = "areLinesParallel2D"
    /\ pc' = "called"
    /\ UNCHANGED <<app, hands, gesture, faces, gazes, console>>
    /\ UNCHANGED loopVars

CallIsHandOpen ==
    /\ pc = "idle"
    /\ \E hand \in {Absent} \cup {h.keypoints : h \in SingleHands} :
          /\ args' = <<hand>>
          /\ ret' = IsHandOpen(hand)
    /\ fn' = "isHandOpen"
    /\ pc' = "called"
    /\ UNCHANGED <<app, hands, gesture, faces, gazes, console>>
    /\ UNCHANGED loopVars

CallCheckFingerInterlocked ==
    /\ pc = "idle"
    /\ \E leftHand \in PresetKeypoints, rightHand \in PresetKeypoints :
          /\ args' = <<leftHand, rightHand>>
          /\ ret' = CheckFingerInterlocked(leftHand, rightHand)
    /\ fn' = "checkFingerInterlocked"
    /\ pc' = "called"
    /\ UNCHANGED <<app, hands, gesture, faces, gazes, console>>
    /\ UNCHANGED loopVars

CallReturn ==
    /\ pc = "called"
    /\ fn' = "none"
    /\ args' = <<>>
    /\ ret' = FALSE
    /\ pc' = "idle"
    /\ UNCHANGED <<app, hands, gesture, faces, gazes, console>>
    /\ UNCHANGED loopVars

\* ---------------------------------------------------------- render loop
\* renderPrediction -> checkGuiUpdate -> renderResult ->
\* requestAnimationFrame(renderPrediction), cut at its awaits.  A detector
\* is a number 1..MaxDetectors; 0 stands for null and for undefined, which
\* `detector != null` does not tell apart.  renderPrediction is started once
\* by app() and asks for the next frame only as its last statement, so one
\* invocation is in progress at a time; the option panel's callbacks run
\* while it waits.
NoDetector == 0
Detectors == 1..MaxDetectors
NoError == "none"

\* Outside the loop (the classification and unit specifications).
LoopOff ==
    /\ rp = "off"
    /\ detector = NoDetector
    /\ created = 0
    /\ disposals = [d \in Detectors |-> 0]
    /\ isTargetFPSChanged = FALSE
    /\ isSizeOptionChanged = FALSE
    /\ isModelChanged = FALSE
    /\ isFlagChanged = FALSE
    /\ isBackendChanged = FALSE
    /\ error = NoError

\* detector.dispose()
Dispose(d) == [disposals EXCEPT ![d] = @ + 1]

\* The frames estimateHands resolves with in the loop: no hand, or one
\* hand showing the middle finger.
LoopFrames ==
    { Absent,
      <<MkHand("Right", "a",
               MkKeypoints(O5, "up", 1, "out", <<"C", "S", "C", "C">>))>> }

\* The places where renderPrediction waits for something other than its own
\* continuation, so that a callback of the option panel can run.
Waiting == {"frame", "setupCamera", "setBackend", "createDetector", "renderResult",
            "estimateHands", "stopped"}

\* The option panel marks a change of the camera's frame rate or size, of
\* the model, of a flag, of the backend.
ChangeTargetFPS ==
    /\ rp \in Waiting
    /\ ~isTargetFPSChanged
    /\ isTargetFPSChanged' = TRUE
    /\ UNCHANGED <<rp, detector, created, disposals, isSizeOptionChanged,
                   isModelChanged, isFlagChanged, isBackendChanged, error>>
    /\ UNCHANGED <<app, pc, hands, gesture, faces, gazes, console, fn, args, ret>>

ChangeSizeOption ==
    /\ rp \in Waiting
    /\ ~isSizeOptionChanged
    /\ isSizeOptionChanged' = TRUE
    /\ UNCHANGED <<rp, detector, created, disposals, isTargetFPSChanged,
                   isModelChanged, isFlagChanged, isBackendChanged, error>>
    /\ UNCHANGED <<app, pc, hands, gesture, faces, gazes, console, fn, args, ret>>

ChangeModel ==
    /\ rp \in Waiting
    /\ ~isModelChanged
    /\ isModelChanged' = TRUE
    /\ UNCHANGED <<rp, detector, created, disposals, isTargetFPSChanged,
                   isSizeOptionChanged, isFlagChanged, isBackendChanged, error>>
    /\ UNCHANGED <<app, pc, hands, gesture, faces, gazes, console, fn, args, ret>>

ChangeFlag ==
    /\ rp \in Waiting
    /\ ~isFlagChanged
    /\ isFlagChanged' = TRUE
    /\ UNCHANGED <<rp, detector, created, disposals, isTargetFPSChanged,
                   isSizeOptionChanged, isModelChanged, isBackendChanged, error>>
    /\ UNCHANGED <<app, pc, hands, gesture, faces, gazes, console, fn, args, ret>>

ChangeBackend ==
    /\ rp \in Waiting
    /\ ~isBackendChanged
    /\ isBackendChanged' = TRUE
    /\ UNCHANGED <<rp, detector, created, disposals, isTargetFPSChanged,
                   isSizeOptionChanged, isModelChanged, isFlagChanged, error>>
    /\ UNCHANGED <<app, pc, hands, gesture, faces, gazes, console, fn, args, ret>>

\* What renderPrediction does once checkGuiUpdate has returned: renderResult
\* unless the model is marked as changed, else straight to the next frame.
AfterGuiUpdate(modelChanged) ==
    IF ~modelChanged THEN "renderResult" ELSE "frame"

\* checkGuiUpdate from its test of the three markers to its next await.
\* With a marker set the detector in use is disposed (and stays in
\* `detector`) and the backend or a new detector is awaited; with none set
\* checkGuiUpdate returns.
CheckMarkers ==
    IF isModelChanged \/ isFlagChanged \/ isBackendChanged
    THEN /\ isModelChanged' = TRUE
         /\ disposals' = IF detector # NoDetector
                         THEN Dispose(detector) ELSE disposals
         /\ rp' = IF isFlagChanged \/ isBackendChanged
                  THEN "setBackend" ELSE "createDetector"
    ELSE /\ rp' = AfterGuiUpdate(isModelChanged)
         /\ UNCHANGED <<isModelChanged, disposals>>

\* The animation frame calls renderPrediction, which runs checkGuiUpdate up
\* to its first await: that of Camera.setupCamera when the frame rate or
\* the size is marked as changed, else what the three markers lead to.
CheckGuiUpdate ==
    /\ rp = "frame"
    /\ hands' = Absent
    /\ gesture' = NoLabel
    /\ error' = NoError
    /\ IF isTargetFPSChanged \/ isSizeOptionChanged
       THEN /\ rp' = "setupCamera"
            /\ UNCHANGED <<isModelChanged, disposals>>
       ELSE CheckMarkers
    /\ UNCHANGED <<detector, created, isTargetFPSChanged, isSizeOptionChanged,
                   isFlagChanged, isBackendChanged>>
    /\ UNCHANGED <<app, pc, faces, gazes, console, fn, args, ret>>

\* await Camera.setupCamera(...) resolves: the camera is replaced, its two
\* markers are cleared and checkGuiUpdate goes on to the three markers.
SetupCamera ==
    /\ rp = "setupCamera"
    /\ isTargetFPSChanged' = FALSE
    /\ isSizeOptionChanged' = FALSE
    /\ CheckMarkers
    /\ UNCHANGED <<detector, created, isFlagChanged, isBackendChanged, error>>
    /\ UNCHANGED <<app, pc, hands, gesture, faces, gazes, console, fn, args, ret>>

\* await Camera.setupCamera(...) rejects: it stands outside any try, so
\* checkGuiUpdate and renderPrediction reject and no frame is asked for.
SetupCameraRejects ==
    /\ rp = "setupCamera"
    /\ rp' = "stopped"
    /\ UNCHANGED <<detector, created, disposals, isTargetFPSChanged,
                   isSizeOptionChanged, isModelChanged, isFlagChanged,
                   isBackendChanged, error>>
    /\ UNCHANGED <<app, pc, hands, gesture, faces, gazes, console, fn, args, ret>>

\* await setBackendAndEnvFlags(...) resolves.
SetBackendAndEnvFlags ==
    /\ rp = "setBackend"
    /\ rp' = "createDetector"
    /\ UNCHANGED <<detector, created, disposals, isModelChanged,
                   isFlagChanged, isBackendChanged, error>>
    /\ UNCHANGED <<isTargetFPSChanged, isSizeOptionChanged>>
    /\ UNCHANGED <<app, pc, hands, gesture, faces, gazes, console, fn, args, ret>>

\* await setBackendAndEnvFlags(...) rejects: it stands outside the try, so
\* checkGuiUpdate and renderPrediction reject and no frame is asked for.
SetBackendAndEnvFlagsRejects ==
    /\ rp = "setBackend"
    /\ rp' = "stopped"
    /\ UNCHANGED <<detector, created, disposals, isModelChanged,
                   isFlagChanged, isBackendChanged, error>>
    /\ UNCHANGED <<isTargetFPSChanged, isSizeOptionChanged>>
    /\ UNCHANGED <<app, pc, hands, gesture, faces, gazes, console, fn, args, ret>>

\* The tail of checkGuiUpdate after the try: the markers are cleared.
ClearMarkers ==
    /\ isFlagChanged' = FALSE
    /\ isBackendChanged' = FALSE
    /\ isModelChanged' = FALSE
    /\ rp' = AfterGuiUpdate(isModelChanged')

\* await createDetector(...) resolves with a new detector.
CreateDetector ==
    /\ rp = "createDetector"
    /\ created < MaxDetectors
    /\ created' = created + 1
    /\ detector' = created'
    /\ ClearMarkers
    /\ UNCHANGED <<disposals, error>>
    /\ UNCHANGED <<isTargetFPSChanged, isSizeOptionChanged>>
    /\ UNCHANGED <<app, pc, hands, gesture, faces, gazes, console, fn, args, ret>>

\* createDetector falls out of its switch (a model or runtime it does not
\* know): it resolves with undefined.
CreateDetectorUndefined ==
    /\ rp = "createDetector"
    /\ detector' = NoDetector
    /\ ClearMarkers
    /\ UNCHANGED <<created, disposals, error>>
    /\ UNCHANGED <<isTargetFPSChanged, isSizeOptionChanged>>
    /\ UNCHANGED <<app, pc, hands, gesture, faces, gazes, console, fn, args, ret>>

\* await createDetector(...) rejects: the catch sets detector to null and
\* alerts.
CreateDetectorRejects ==
    /\ rp = "createDetector"
    /\ detector' = NoDetector
    /\ error' = "createDetector"
    /\ ClearMarkers
    /\ UNCHANGED <<created, disposals>>
    /\ UNCHANGED <<isTargetFPSChanged, isSizeOptionChanged>>
    /\ UNCHANGED <<app, pc, hands, gesture, faces, gazes, console, fn, args, ret>>

\* renderResult up to the call of detector.estimateHands; without a
\* detector hands stays null, nothing is classified and the next frame is
\* asked for.
RenderResult ==
    /\ rp = "renderResult"
    /\ rp' = IF detector # NoDetector THEN "estimateHands" ELSE "frame"
    /\ UNCHANGED <<detector, created, disposals, isModelChanged,
                   isFlagChanged, isBackendChanged, error>>
    /\ UNCHANGED <<isTargetFPSChanged, isSizeOptionChanged>>
    /\ UNCHANGED <<app, pc, hands, gesture, faces, gazes, console, fn, args, ret>>

\* await detector.estimateHands(...) resolves: the hands are drawn and
\* classified unless the model was marked as changed meanwhile, and the
\* next frame is asked for.
EstimateHandsResolves ==
    /\ rp = "estimateHands"
    /\ \E frame \in LoopFrames :
          \E drawn \in (IF Len(frame) > 0 /\ ~isModelChanged
                        THEN DrawResults(frame) ELSE {frame}) :
              hands' = drawn
    /\ gesture' = IF Len(hands') > 0 /\ ~isModelChanged
                  THEN DetectGesture(hands') ELSE NoLabel
    /\ console' = IF gesture' # NoLabel THEN gesture' ELSE console
    /\ rp' = "frame"
    /\ UNCHANGED <<detector, created, disposals, isModelChanged,
                   isFlagChanged, isBackendChanged, error>>
    /\ UNCHANGED <<isTargetFPSChanged, isSizeOptionChanged>>
    /\ UNCHANGED <<app, pc, faces, gazes, fn, args, ret>>

\* Mutant: the catch disposes the detector and keeps it in `detector`.
EstimateHandsRejects_KeepDetector ==
    /\ rp = "estimateHands"
    /\ disposals' = Dispose(detector)
    /\ error' = "estimateHands"
    /\ rp' = "frame"
    /\ UNCHANGED <<detector, created, isModelChanged, isFlagChanged,
                   isBackendChanged>>
    /\ UNCHANGED <<isTargetFPSChanged, isSizeOptionChanged>>
    /\ UNCHANGED <<app, pc, hands, gesture, faces, gazes, console, fn, args, ret>>

\* await detector.estimateHands(...) rejects: the catch disposes the
\* detector, sets detector to null and alerts; hands stays null.
EstimateHandsRejects ==
    /\ rp = "estimateHands"
    /\ disposals' = Dispose(detector)
    /\ detector' = NoDetector
    /\ error' = "estimateHands"
    /\ rp' = "frame"
    /\ UNCHANGED <<created, isModelChanged, isFlagChanged, isBackendChanged>>
    /\ UNCHANGED <<isTargetFPSChanged, isSizeOptionChanged>>
    /\ UNCHANGED <<app, pc, hands, gesture, faces, gazes, console, fn, args, ret>>

Init ==
    /\ app \in {"hand", "face"}
    /\ pc = "idle"
    /\ hands = Absent
    /\ gesture = NoLabel
    /\ faces = <<>>
    /\ gazes = <<>>
    /\ console = NoLabel
    /\ fn = "none"
    /\ args = <<>>
    /\ ret = FALSE
    /\ LoopOff

Next ==
    \/ EstimateHands
    \/ ClassifyHands
    \/ ReturnHands
    \/ EstimateFaces
    \/ ClassifyFaces
    \/ ReturnFaces

Spec == Init /\ [][Next]_vars

InitUnit ==
    /\ app = "none"
    /\ pc = "idle"
    /\ hands = Absent
    /\ gesture = NoLabel
    /\ faces = <<>>
    /\ gazes = <<>>
    /\ console = NoLabel
    /\ fn = "none"
    /\ args = <<>>
    /\ ret = FALSE
    /\ LoopOff

NextUnit ==
    \/ CallArePointsColinear
    \/ CallArePointsColinear2D
    \/ CallAreLinesParallel2D
    \/ CallIsHandOpen
    \/ CallCheckFingerInterlocked
    \/ CallReturn

SpecUnit == InitUnit /\ [][NextUnit]_vars

\* app() has made the first detector (or createDetector gave undefined) and
\* calls renderPrediction.
InitLoop ==
    /\ app = "hand"
    /\ pc = "idle"
    /\ hands = Absent
    /\ gesture = NoLabel
    /\ faces = <<>>
    /\ gazes = <<>>
    /\ console = NoLabel
    /\ fn = "none"
    /\ args = <<>>
    /\ ret = FALSE
    /\ rp = "frame"
    /\ created \in {0, 1}
    /\ detector = created
    /\ disposals = [d \in Detectors |-> 0]
    /\ isTargetFPSChanged = FALSE
    /\ isSizeOptionChanged = FALSE
    /\ isModelChanged = FALSE
    /\ isFlagChanged = FALSE
    /\ isBackendChanged = FALSE
    /\ error = NoError

NextLoop ==
    \/ ChangeTargetFPS
    \/ ChangeSizeOption
    \/ ChangeModel
    \/ ChangeFlag
    \/ ChangeBackend
    \/ CheckGuiUpdate
    \/ SetupCamera
    \/ SetupCameraRejects
    \/ SetBackendAndEnvFlags
    \/ SetBackendAndEnvFlagsRejects
    \/ CreateDetector
    \/ CreateDetectorUndefined
    \/ CreateDetectorRejects
    \/ RenderResult
    \/ EstimateHandsResolves
    \/ EstimateHandsRejects

SpecLoop == InitLoop /\ [][NextLoop]_vars

\* ================================================================ claims
FI == "Finger Interlocked"
OP == "Open Palm"
MF == "Middle Finger"

HandDetected == app = "hand" /\ pc = "detected"
FaceDetected == app = "face" /\ pc = "detected"

\* The frame has a hand tagged Left and one tagged Right, both with landmarks.
TwoHands(hs) ==
    /\ Len(hs) >= 2
    /\ FindHand(hs, "Left") # 0
    /\ FindHand(hs, "Right") # 0
    /\ hs[FindHand(hs, "Left")].keypoints # Absent
    /\ hs[FindHand(hs, "Right")].keypoints # Absent

LeftLm(hs) == hs[FindHand(hs, "Left")].keypoints
RightLm(hs) == hs[FindHand(hs, "Right")].keypoints

\* How many of the 5 compared joint pairs are less than 40 apart / at most 40 apart.
PairsBelow40(l, r) ==
    Cardinality({j \in {3, 6, 10, 14, 18} :
        Sq(At(l, j).x - At(r, j).x) + Sq(At(l, j).y - At(r, j).y) < 1600})
PairsWithin40(l, r) ==
    Cardinality({j \in {3, 6, 10, 14, 18} :
        Sq(At(l, j).x - At(r, j).x) + Sq(At(l, j).y - At(r, j).y) <= 1600})

\* How many of the 4 tested fingers are straight.
StraightFingers(h) ==
    Cardinality({f \in {<<5, 6, 7, 8>>, <<9, 10, 11, 12>>, <<13, 14, 15, 16>>, <<17, 18, 19, 20>>} :
        /\ ArePointsColinear2D(At(h, f[1]), At(h, f[2]), At(h, f[4]), <<3, 20>>)
        /\ ArePointsColinear2D(At(h, f[2]), At(h, f[3]), At(h, f[4]), <<3, 20>>)})

WristsParallel(l, r) == AreLinesParallel2D(At(l, 0), At(l, 12), At(r, 0), At(r, 12), 20)

OpenPalmCondition(l, r) ==
    StraightFingers(l) >= 3 /\ StraightFingers(r) >= 3 /\ WristsParallel(l, r)

MiddleFingerRule(kp) ==
    /\ At(kp, 8).y > At(kp, 6).y
    /\ At(kp, 16).y > At(kp, 14).y
    /\ At(kp, 20).y > At(kp, 18).y
    /\ At(kp, 12).y < At(kp, 10).y

SingleHandPhase(hs) ==
    IF \E i \in 1..Len(hs) : hs[i].keypoints # Absent /\ MiddleFingerRule(hs[i].keypoints)
    THEN MF ELSE NoLabel

\* relX (relY) as the decision list of the claim reads it.
GazeOrder(relX, relY) ==
    IF DLess(relX, Double(35, 100)) THEN "RIGHT"
    ELSE IF DGreater(relX, Double(65, 100)) THEN "LEFT"
    ELSE IF DGreater(relY, Zero) /\ DLess(relY, Double(3, 10)) THEN "UP"
    ELSE IF DLess(relY, Zero) THEN "DOWN"
    ELSE "CENTER"

\* 0.35 <= relX <= 0.65
InMidRange(relX) ==
    IsFinite(relX) /\ ~DLess(relX, Double(35, 100)) /\ ~DGreater(relX, Double(65, 100))

IsHalf(q) == DEqual(q, Double(1, 2))

\* C1 as stated: every gaze follows the decision order RIGHT, LEFT, UP, DOWN,
\* CENTER; UP or DOWN is returned only when 0.35 <= relX <= 0.65, and
\* outside that range the horizontal label is returned.
C1_Original ==
    FaceDetected => \A i \in 1..Len(faces) :
        LET relX == RelX(faces[i])
            relY == RelY(faces[i])
        IN  /\ gazes[i] = GazeOrder(relX, relY)
            /\ gazes[i] \in {"UP", "DOWN"} => InMidRange(relX)
            /\ ~InMidRange(relX) => gazes[i] \in {"RIGHT", "LEFT"}

\* C1 amended: every gaze follows the decision order; UP or DOWN is returned
\* only when relX is within [0.35, 0.65] or is NaN, and whenever relX < 0.35
\* (relX > 0.65) RIGHT (LEFT) is returned whatever relY is.
C1_GazeOrder ==
    FaceDetected => \A i \in 1..Len(faces) :
        LET relX == RelX(faces[i])
            relY == RelY(faces[i])
        IN  /\ gazes[i] = GazeOrder(relX, relY)
            /\ gazes[i] \in {"UP", "DOWN"} => InMidRange(relX) \/ IsNaN(relX)
            /\ DLess(relX, Double(35, 100)) => gazes[i] = "RIGHT"
            /\ DGreater(relX, Double(65, 100)) => gazes[i] = "LEFT"

\* A face with a horizontal and a vertical extreme at once, reported RIGHT.
C1_Witness ==
    /\ FaceDetected
    /\ \E i \in 1..Len(faces) :
          LET relX == RelX(faces[i])
              relY == RelY(faces[i])
          IN  /\ IsFinite(relX) /\ DLess(relX, Double(35, 100))
              /\ IsFinite(relY) /\ DLess(relY, Zero)
              /\ gazes[i] = "RIGHT"

\* Both pupils at the horizontal midpoint of their eyes.
AtMidpoint(face) ==
    /\ IsHalf(EyeRelX(LeftEye(face.keypoints)))
    /\ IsHalf(EyeRelX(RightEye(face.keypoints)))

\* C2 as stated: with both pupils at the horizontal midpoint and relY in
\* [0, 0.3), relY = 0 included, the gaze is UP.
C2_Original ==
    FaceDetected => \A i \in 1..Len(faces) :
        LET relY == RelY(faces[i])
        IN  (/\ AtMidpoint(faces[i])
             /\ IsFinite(relY)
             /\ ~DLess(relY, Zero)
             /\ DLess(relY, Double(3, 10)))
            => gazes[i] = "UP"

\* C2 amended: with both pupils at the horizontal midpoint, relY in the open
\* interval (0, 0.3) gives UP, and relY = 0 gives CENTER.
C2_UpInOpenInterval ==
    FaceDetected => \A i \in 1..Len(faces) :
        LET relY == RelY(faces[i])
        IN  (/\ AtMidpoint(faces[i])
             /\ IsFinite(relY)
             /\ DLess(relY, Double(3, 10)))
            => /\ DGreater(relY, Zero) => gazes[i] = "UP"
               /\ DEqual(relY, Zero) => gazes[i] = "CENTER"

C2_Witness ==
    /\ FaceDetected
    /\ \E i \in 1..Len(faces) :
          LET relY == RelY(faces[i])
          IN  /\ AtMidpoint(faces[i])
              /\ IsFinite(relY)
              /\ DGreater(relY, Zero)
              /\ DLess(relY, Double(3, 10))
              /\ gazes[i] = "UP"

\* C3: when the Left and Right hands meet the Finger Interlocked condition
\* and the Open Palm condition at once, the gesture is Finger Interlocked.
C3_InterlockedFirst ==
    (/\ HandDetected
     /\ TwoHands(hands)
     /\ PairsBelow40(LeftLm(hands), RightLm(hands)) >= 3
     /\ OpenPalmCondition(LeftLm(hands), RightLm(hands)))
    => gesture = FI

C3_Witness ==
    /\ HandDetected
    /\ TwoHands(hands)
    /\ PairsBelow40(LeftLm(hands), RightLm(hands)) >= 3
    /\ OpenPalmCondition(LeftLm(hands), RightLm(hands))
    /\ gesture = FI

\* C4 as stated: parallel wrists and fewer than 3 straight fingers in each
\* hand give no label.
C4_Original ==
    (/\ HandDetected
     /\ TwoHands(hands)
     /\ WristsParallel(LeftLm(hands), RightLm(hands))
     /\ StraightFingers(LeftLm(hands)) < 3
     /\ StraightFingers(RightLm(hands)) < 3)
    => gesture = NoLabel

\* C4 amended: parallel wrists and fewer than 3 straight fingers in each
\* hand never give Open Palm, and give no label when moreover fewer than 3
\* joint pairs are close and no hand meets the Middle Finger rule.
C4_NoOpenPalm ==
    (/\ HandDetected
     /\ TwoHands(hands)
     /\ WristsParallel(LeftLm(hands), RightLm(hands))
     /\ StraightFingers(LeftLm(hands)) < 3
     /\ StraightFingers(RightLm(hands)) < 3)
    => /\ gesture # OP
       /\ (PairsBelow40(LeftLm(hands), RightLm(hands)) < 3
             /\ SingleHandPhase(hands) = NoLabel) => gesture = NoLabel

C4_Witness ==
    /\ HandDetected
    /\ TwoHands(hands)
    /\ WristsParallel(LeftLm(hands), RightLm(hands))
    /\ StraightFingers(LeftLm(hands)) < 3
    /\ StraightFingers(RightLm(hands)) < 3
    /\ gesture = NoLabel

\* C5: one hand with index, ring and pinky tips below their pip joints and
\* the middle tip above its pip joint is Middle Finger, whatever the thumb
\* and the other landmarks are.
C5_MiddleFinger ==
    (/\ HandDetected
     /\ Len(hands) = 1
     /\ hands[1].keypoints # Absent
     /\ MiddleFingerRule(hands[1].keypoints))
    => gesture = MF

\* Such a hand with the thumb stretched out above its ip joint.
C5_Witness ==
    /\ HandDetected
    /\ Len(hands) = 1
    /\ hands[1].keypoints # Absent
    /\ MiddleFingerRule(hands[1].keypoints)
    /\ At(hands[1].keypoints, 4).y < At(hands[1].keypoints, 3).y
    /\ gesture = MF

\* C6: with fewer than 2 hands, or no Left hand, or no Right hand, the
\* result is never a two-hand label and is that of the single-hand phase;
\* so it is when the two-hand rules are evaluated and neither fires.
C6_TwoHandPhaseGuard ==
    HandDetected =>
        /\ (Len(hands) < 2 \/ FindHand(hands, "Left") = 0 \/ FindHand(hands, "Right") = 0)
              => gesture \notin {FI, OP} /\ gesture = SingleHandPhase(hands)
        /\ (/\ TwoHands(hands)
            /\ PairsBelow40(LeftLm(hands), RightLm(hands)) < 3
            /\ ~OpenPalmCondition(LeftLm(hands), RightLm(hands)))
              => gesture = SingleHandPhase(hands)

\* Two open hands close together, none of them tagged Left: no label.
C6_Witness ==
    /\ HandDetected
    /\ Len(hands) = 2
    /\ FindHand(hands, "Left") = 0
    /\ hands[1].keypoints # Absent /\ hands[2].keypoints # Absent
    /\ PairsBelow40(hands[1].keypoints, hands[2].keypoints) >= 3
    /\ gesture = NoLabel

UnitCall(name) == pc = "called" /\ fn = name

\* C7 as stated: Finger Interlocked iff at least 3 of the 5 pairs are at
\* most 40 apart (a pair exactly 40 apart counts), otherwise no label.
C7_Original ==
    (UnitCall("checkFingerInterlocked") /\ args[1] # Absent /\ args[2] # Absent)
    => /\ ret = FI <=> PairsWithin40(args[1], args[2]) >= 3
       /\ ret # FI => ret = NoLabel

\* C7 amended: Finger Interlocked iff at least 3 of the 5 pairs are less
\* than 40 apart (a pair exactly 40 apart does not count), otherwise no label.
C7_StrictlyBelow40 ==
    (UnitCall("checkFingerInterlocked") /\ args[1] # Absent /\ args[2] # Absent)
    => /\ ret = FI <=> PairsBelow40(args[1], args[2]) >= 3
       /\ ret # FI => ret = NoLabel

\* Hands whose pairs are at most 40 apart in 3 cases, less than 40 in fewer.
C7_Witness ==
    /\ UnitCall("checkFingerInterlocked") /\ args[1] # Absent /\ args[2] # Absent
    /\ PairsWithin40(args[1], args[2]) >= 3
    /\ PairsBelow40(args[1], args[2]) < 3
    /\ ret = NoLabel

\* C8: with a zero-length difference vector or segment the three
\* predicates return false, for every tolerance.
C8_DegenerateIsFalse ==
    /\ (UnitCall("arePointsColinear") /\ (args[2] = args[1] \/ args[3] = args[1]))
          => ret = FALSE
    /\ (UnitCall("arePointsColinear2D") /\ (args[2] = args[1] \/ args[3] = args[1]))
          => ret = FALSE
    /\ (UnitCall("areLinesParallel2D") /\ (args[2] = args[1] \/ args[4] = args[3]))
          => ret = FALSE

\* p2 = p3 = p1 under the widest tolerance.
C8_Witness ==
    /\ UnitCall("arePointsColinear")
    /\ args[2] = args[1] /\ args[3] = args[1]
    /\ args[4] = <<2, 1>>
    /\ ret = FALSE

\* The hand with its thumb landmarks 1..4 moved onto p.
WithThumb(h, p) == [i \in 1..21 |-> IF i \in 2..5 THEN p ELSE h[i]]

\* C9: isHandOpen is true iff the hand is present and at least 3 of its 4
\* non-thumb fingers are straight at tolerance 0.15; the thumb has no say.
C9_HandOpen ==
    UnitCall("isHandOpen") =>
        /\ ret = (args[1] # Absent /\ StraightFingers(args[1]) >= 3)
        /\ args[1] # Absent =>
              \A p \in {At(args[1], 0), At(args[1], 12), [x |-> 0, y |-> 0]} :
                  IsHandOpen(WithThumb(args[1], p)) = ret

\* A hand with exactly 3 straight fingers.
C9_Witness ==
    /\ UnitCall("isHandOpen")
    /\ args[1] # Absent
    /\ StraightFingers(args[1]) = 3
    /\ ret = TRUE

\* C11: in the render loop, whatever the option panel marks while the loop
\* waits and whichever of createDetector and estimateHands fail:
\* estimateHands is awaited only on a detector, and one that has not been
\* disposed; no detector is disposed more than once; and when a step has
\* caught a failure of estimateHands or of createDetector, detector is null,
\* so that frames go without inference until createDetector gives a
\* detector again.
C11_DetectorLifecycle ==
    /\ rp = "estimateHands" =>
          /\ detector # NoDetector
          /\ disposals[detector] = 0
    /\ \A d \in Detectors : disposals[d] <= 1
    /\ error # NoError => detector = NoDetector
    /\ detector # NoDetector => detector = created

\* Two detectors so far: the first disposed by checkGuiUpdate after a change
\* in the option panel, the second by the catch of a failed estimateHands,
\* which has just left detector null.
C11_Witness ==
    /\ rp = "frame"
    /\ error = "estimateHands"
    /\ detector = NoDetector
    /\ created = 2
    /\ disposals[1] = 1
    /\ disposals[2] = 1

====
